---------------------------- MODULE Spec2Model ----------------------------
(***************************************************************************)
(* Model of the VigilIntel OpenCTI connector (src/lib/vigilintel.py):      *)
(* the date reconciler (_compute_date_range), the per-date ingestion loop  *)
(* (_process_dates, _download_report, _validate_stix_bundle,               *)
(* _send_to_opencti) and the run loop (run).                               *)
(*                                                                         *)
(* A datetime at UTC midnight is its proleptic Gregorian ordinal (the      *)
(* value of date.toordinal()).  An ISO text is the sequence of its numeric *)
(* fields <<year, month, day>>; a text that fromisoformat rejects is a     *)
(* sequence of another length or one whose fields name no calendar day.    *)
(* A dict is the set of its <<key, value>> pairs.                          *)
(***************************************************************************)
EXTENDS Integers, Sequences, FiniteSets

(***************************************************************************)
(* Bounds of the model.                                                    *)
(***************************************************************************)
\* largest configured lookback_days
MaxLookback == 2
\* days the clock may advance past the first day over the whole run
MaxElapsed == 1
\* passes of the run loop
MaxPasses == 2
\* how many days before the first day a previously persisted watermark lies
MaxLag == 2

(***************************************************************************)
(* Calendar: datetime, timedelta(days=..), strftime, isoformat,            *)
(* fromisoformat.                                                          *)
(***************************************************************************)
IsLeap(y) == (y % 4 = 0) /\ ((y % 100 # 0) \/ (y % 400 = 0))

DaysInMonth(y, m) ==
  IF m = 2 THEN (IF IsLeap(y) THEN 29 ELSE 28)
  ELSE IF m \in {4, 6, 9, 11} THEN 30 ELSE 31

RECURSIVE DaysBeforeMonth(_, _)
DaysBeforeMonth(y, m) ==
  IF m <= 1 THEN 0 ELSE DaysBeforeMonth(y, m - 1) + DaysInMonth(y, m - 1)

DaysBeforeYear(y) ==
  (y - 1) * 365 + ((y - 1) \div 4) - ((y - 1) \div 100) + ((y - 1) \div 400)

DaysInYear(y) == IF IsLeap(y) THEN 366 ELSE 365

\* date(y, m, d).toordinal()
ToOrdinal(y, m, d) == DaysBeforeYear(y) + DaysBeforeMonth(y, m) + d

\* the year of the day with ordinal n
YearOf(n) ==
  LET n0   == n - 1
      n400 == n0 \div 146097
      r400 == n0 % 146097
      n100 == r400 \div 36524
      r100 == r400 % 36524
      n4   == r100 \div 1461
      r4   == r100 % 1461
      n1   == r4 \div 365
      y    == n400 * 400 + 1 + n100 * 100 + n4 * 4 + n1
  IN  IF n1 = 4 \/ n100 = 4 THEN y - 1 ELSE y

MonthOf(n) ==
  LET y   == YearOf(n)
      doy == n - DaysBeforeYear(y)
  IN  CHOOSE m \in 1..12 :
        DaysBeforeMonth(y, m) < doy /\ doy <= DaysBeforeMonth(y, m) + DaysInMonth(y, m)

DayOf(n) ==
  LET y == YearOf(n) IN n - DaysBeforeYear(y) - DaysBeforeMonth(y, MonthOf(n))

\* the absence of a datetime (None)
NoDate == 0

\* datetime.isoformat(): the text of a midnight UTC datetime
IsoFormat(n) == <<YearOf(n), MonthOf(n), DayOf(n)>>

\* the text names a calendar day (fromisoformat raises ValueError otherwise)
IsIsoText(t) ==
  /\ Len(t) = 3
  /\ t[1] \in 1..9999
  /\ t[2] \in 1..12
  /\ t[3] >= 1
  /\ t[3] <= DaysInMonth(t[1], t[2])

\* FromIsoFormat, had the day of the month not been checked against the
\* calendar (no ValueError for the 30th of February)
FromIsoFormatLenient(t) ==
  IF Len(t) = 3 THEN ToOrdinal(t[1], t[2], t[3]) ELSE NoDate

\* datetime.fromisoformat(text).replace(tzinfo=utc), None when it raises
FromIsoFormat(t) == IF IsIsoText(t) THEN ToOrdinal(t[1], t[2], t[3]) ELSE NoDate

\* target_date.strftime("%Y-%m-%d")
StrfDate(n) == <<YearOf(n), MonthOf(n), DayOf(n)>>


(***************************************************************************)
(* The persisted connector state: a dict of text values.                   *)
(***************************************************************************)
HasKey(d, k) == \E p \in d : p[1] = k

Get(d, k) == (CHOOSE p \in d : p[1] = k)[2]

\* get_state() of a connector that never persisted anything (None or {})
EmptyState == {}

\* the mapping written at lines 280-283
NewState(last, now) ==
  {<<"last_processed_date", IsoFormat(last)>>, <<"last_run", IsoFormat(now)>>}

(***************************************************************************)
(* The date reconciler.                                                    *)
(***************************************************************************)
\* lines 116-124: the watermark read from the state, None when the state is
\* empty, has no such key, or holds a text that does not parse
ReadWatermark(st) ==
  IF st # {} /\ HasKey(st, "last_processed_date")
  THEN FromIsoFormat(Get(st, "last_processed_date"))
  ELSE NoDate

\* lines 143-147: the dates from start to end inclusive, ascending
RECURSIVE DatesFrom(_, _)
DatesFrom(start, end) ==
  IF start > end THEN <<>> ELSE <<start>> \o DatesFrom(start + 1, end)

\* StartDate, had line 135 subtracted the day instead of adding it
StartDateBackward(now, last, lookback) ==
  IF last = NoDate THEN now - lookback ELSE last - 1

\* StartDate, had line 135 not added the day
StartDateSameDay(now, last, lookback) ==
  IF last = NoDate THEN now - lookback ELSE last

\* StartDate, had line 128 started the backfill one day late
StartDateShortBackfill(now, last, lookback) ==
  IF last = NoDate THEN now - lookback + 1 ELSE last + 1

\* StartDate, had lines 126-135 started at the lookback window whatever the
\* watermark
StartDateFromWindow(now, last, lookback) ==
  now - lookback

\* lines 126-135: the first date of the range
StartDate(now, last, lookback) ==
  IF last = NoDate THEN now - lookback ELSE last + 1

\* ComputeDateRange, had line 136 compared with >=
ComputeDateRangeEarlyStop(now, st, lookback) ==
  LET last_processed == ReadWatermark(st)
      start_date     == StartDate(now, last_processed, lookback)
  IN  IF last_processed # NoDate /\ start_date >= now
      THEN <<>>
      ELSE DatesFrom(start_date, now)

\* _compute_date_range, given today, the state read and lookback_days
ComputeDateRange(now, st, lookback) ==
  LET last_processed == ReadWatermark(st)
      start_date     == StartDate(now, last_processed, lookback)
  IN  IF last_processed # NoDate /\ start_date > now
      THEN <<>>
      ELSE DatesFrom(start_date, now)

(***************************************************************************)
(* HTTP responses, JSON documents, download and validation.                *)
(***************************************************************************)
\* A JSON document: json is its top-level type; for an object, type is the
\* value under "type" ("absent" when the key is missing) and objects is the
\* type of the value under "objects" ("absent" when the key is missing).
Doc(j, t, o) == [json |-> j, type |-> t, objects |-> o]

\* what Python calls None, also the value of the JSON document null
None == Doc("null", "absent", "absent")

ValidBundle == Doc("object", "bundle", "list")

Documents ==
  { None,
    Doc("array", "absent", "absent"),
    ValidBundle,
    Doc("object", "report", "list"),
    Doc("object", "absent", "list"),
    Doc("object", "bundle", "absent"),
    Doc("object", "bundle", "string") }

\* the body of a response that is no JSON text
Unparseable == Doc("unparseable", "absent", "absent")

\* what requests.get(url, timeout=30) does: raise a transport failure
\* (exc = "transport": connection error or timeout), or return a response
Resp(e, s, b) == [exc |-> e, status |-> s, body |-> b]

Responses ==
  {Resp("transport", 0, Unparseable)}
    \cup {Resp("none", s, Unparseable) : s \in {404, 500}}
    \cup {Resp("none", 200, b) : b \in Documents \cup {Unparseable}}

\* the class of a response, for the record of a pass
RespKind(r) ==
  IF r.exc # "none" THEN "transport"
  ELSE IF r.status = 404 THEN "notfound"
  ELSE IF r.status >= 400 THEN "status"
  ELSE IF r.body.json = "unparseable" THEN "badjson"
  ELSE "json"

\* _download_report: the parsed document, or None
DownloadReport(r) ==
  IF r.exc # "none" THEN None                       \* RequestException
  ELSE IF r.status = 404 THEN None                  \* lines 164-168
  ELSE IF r.status >= 400 THEN None                 \* raise_for_status
  ELSE IF r.body.json = "unparseable" THEN None     \* JSONDecodeError
  ELSE r.body                                       \* response.json()

\* ValidateStixBundle, had line 191-192 been left out
ValidateTypeOnly(b) ==
  IF b.json # "object" THEN FALSE
  ELSE IF b.type # "bundle" THEN FALSE
  ELSE TRUE

\* _validate_stix_bundle
ValidateStixBundle(b) ==
  IF b.json # "object" THEN FALSE
  ELSE IF b.type # "bundle" THEN FALSE
  ELSE IF b.objects = "absent" \/ b.objects # "list" THEN FALSE
  ELSE TRUE

(***************************************************************************)
(* The ingestion loop's decisions.                                         *)
(***************************************************************************)
\* CandidateAfterNone, had line 253 been left out
CandidateAfterNoneKept(last, target_date) == last

\* lines 250-254: the watermark candidate after a date whose download
\* returned None
CandidateAfterNone(last, target_date) == target_date

\* lines 256-263: the watermark candidate after a date whose document
\* failed validation
CandidateAfterInvalid(last, target_date) == target_date

\* CandidateAfterSend, had line 276 advanced the candidate too
CandidateAfterSendAlways(ok, last, target_date) == target_date

\* lines 272-276: the watermark candidate after the sink call returned ok
CandidateAfterSend(ok, last, target_date) == IF ok THEN target_date ELSE last

\* ShouldPersist, had line 279 not asked for a success
ShouldPersistAnyVisit(last, successes) == last # NoDate

\* line 279: whether the pass persists a new state
ShouldPersist(last, successes) == last # NoDate /\ successes >= 1

\* Summary, had line 292 reported skip_count as the errors as well
SummarySkippedTwice(imported, skipped, errors, total) ==
  [imported |-> imported, skipped |-> skipped, errors |-> skipped,
   total |-> total]

\* lines 291-295: the counts of the summary message
Summary(imported, skipped, errors, total) ==
  [imported |-> imported, skipped |-> skipped, errors |-> errors, total |-> total]

NoSummary == Summary(0, 0, 0, 0)

(***************************************************************************)
(* State.                                                                  *)
(***************************************************************************)
VARIABLES
  today,              \* the clock, truncated to the UTC day (line 111)
  state,              \* the state store: what get_state returns
  lookback_days,      \* configuration (line 57)
  pc,                 \* where the run loop is
  passes,             \* passes started so far
  dates,              \* _process_dates: the pending list (line 220)
  idx,                \* position of the loop in dates (line 241)
  success_count,
  skip_count,
  error_count,
  last_success_date,
  bundle,             \* the validated document waiting to be sent
  work_id,            \* the work of this pass, 0 when none was initiated
  last_processed,     \* the watermark _compute_date_range read (line 117)
  observe,            \* whether the record of the pass is kept
  track,              \* whether the passes before this one are remembered
  attempts,           \* record of this pass: one entry per date visited
  sent_dates,         \* dates of this pass whose bundle the sink accepted
  wrote,              \* this pass called set_state and it returned
  faulted,            \* a fault of this pass reached run's except clause
  summary,            \* the counts handed to to_processed
  sunk,               \* documents this pass handed to send_stix2_bundle
  attempted,          \* dates fetched in earlier passes
  forwarded,          \* dates whose bundle the sink accepted, earlier passes
  processed,          \* to_processed calls that returned for this pass's work
  last_refused,       \* the sink refused the date visited last in this pass
  state_reads,        \* get_state calls of this pass
  state_writes,       \* set_state calls of this pass
  prev                \* what the pass before this one did, until work starts

vars ==
  <<today, state, lookback_days, pc, passes, dates, idx, success_count,
    skip_count, error_count, last_success_date, bundle, work_id,
    last_processed, observe, track, attempts, sent_dates, wrote, faulted, summary,
    sunk, attempted, forwarded, processed, last_refused, state_reads,
    state_writes, prev>>

\* the first day of the run loop's clock
FirstDay == ToOrdinal(2024, 2, 28)

LastDay == FirstDay + MaxElapsed

\* a text that fromisoformat rejects: no such calendar day
BadDayText == <<2024, 2, 30>>

\* a text that fromisoformat rejects: not the fields of a date
ShortText == <<2024, 3>>

StateWith(text, now) ==
  {<<"last_processed_date", text>>, <<"last_run", IsoFormat(now)>>}

\* what the state store may hold on day d when a pass starts: nothing, a
\* state an earlier pass wrote, or a state whose watermark does not parse
StoredStates(d) ==
  {EmptyState}
    \cup {NewState(d - k, d - k) : k \in 0..MaxLag}
    \cup {StateWith(BadDayText, d - 1)}

\* one entry of the record of a pass
Attempt(d, k, res) == [date |-> d, kind |-> k, result |-> res]

\* the record of the pass after one more date
Record(a) == IF observe THEN Append(attempts, a) ELSE attempts

Range(seq) == {seq[i] : i \in 1..Len(seq)}

\* what is remembered across passes after one more pass
Remember(old, new) == IF track THEN new ELSE old

\* what is remembered of a pass once it is over: the day it ran on, the
\* dates it visited, the dates the sink accepted, whether it wrote the
\* state, whether a fault ended it, whether the sink refused its last date
PassRecord(d, visited, sent, w, f, r) ==
  [day |-> d, dates |-> visited, sent |-> sent, wrote |-> w, faulted |-> f,
   refused |-> r]

NoPrev == PassRecord(NoDate, <<>>, {}, FALSE, FALSE, FALSE)

\* AfterFault, had run no except clause: the fault leaves the loop
AfterFaultExit == "exit"

\* lines 310-314: a fault of the pass lands in run's except clause, and
\* run goes on to its sleep
AfterFault == "sleep"

InitRest ==
  /\ lookback_days \in 0..MaxLookback
  /\ pc = "start"
  /\ passes = 0
  /\ dates = <<>>
  /\ idx = 0
  /\ success_count = 0
  /\ skip_count = 0
  /\ error_count = 0
  /\ last_success_date = NoDate
  /\ bundle = None
  /\ work_id = 0
  /\ last_processed = NoDate
  /\ attempts = <<>>
  /\ sent_dates = {}
  /\ wrote = FALSE
  /\ faulted = FALSE
  /\ summary = NoSummary
  /\ sunk = {}
  /\ attempted = {}
  /\ forwarded = {}
  /\ processed = 0
  /\ last_refused = FALSE
  /\ state_reads = 0
  /\ state_writes = 0
  /\ prev = NoPrev

\* the connector starts (main.py, lines 11-12)
Init ==
  /\ today = FirstDay
  /\ state \in StoredStates(FirstDay)
  /\ observe = FALSE
  /\ track = TRUE
  /\ InitRest

history == <<sunk, attempted, forwarded, processed>>
counters == <<success_count, skip_count, error_count, last_success_date>>
config == <<lookback_days, observe, track>>
audit == <<last_refused, state_reads, state_writes, prev>>

(***************************************************************************)
(* run, lines 307-309, and _process_dates, lines 220-222: a pass starts    *)
(* by reconciling the dates.                                               *)
(***************************************************************************)
Reconcile ==
  /\ pc = "start"
  /\ state_reads' = state_reads + 1
  /\ \/ \* get_state returned
        /\ last_processed' = ReadWatermark(state)
        /\ dates' = ComputeDateRange(today, state, lookback_days)
        /\ pc' = IF dates' = <<>> THEN "sleep" ELSE "initiate"
        /\ UNCHANGED faulted
     \/ \* get_state raised: the fault reaches run (lines 310-314)
        /\ faulted' = TRUE
        /\ pc' = AfterFault
        /\ UNCHANGED <<last_processed, dates>>
  /\ UNCHANGED <<today, state, config, idx, counters, bundle, work_id,
                 attempts, sent_dates, wrote, summary, history, last_refused,
                 state_writes, prev>>

\* a pass starts, and is counted
StartPass ==
  /\ passes < MaxPasses
  /\ passes' = passes + 1
  /\ Reconcile

\* a pass starts once the count of passes has reached its bound
StartPassAgain ==
  /\ passes = MaxPasses
  /\ UNCHANGED passes
  /\ Reconcile

(***************************************************************************)
(* _process_dates, lines 224-239.                                          *)
(***************************************************************************)
InitiateWork ==
  /\ pc = "initiate"
  /\ \/ \* initiate_work returned a work id
        /\ success_count' = 0
        /\ skip_count' = 0
        /\ error_count' = 0
        /\ last_success_date' = NoDate
        /\ work_id' = passes
        /\ idx' = 1
        /\ pc' = "fetch"
        /\ UNCHANGED faulted
     \/ \* initiate_work raised
        /\ faulted' = TRUE
        /\ pc' = AfterFault
        /\ UNCHANGED <<counters, work_id, idx>>
  /\ prev' = NoPrev
  /\ UNCHANGED <<today, state, config, passes, dates, bundle, last_processed,
                 attempts, sent_dates, wrote, summary, sunk, attempted,
                 forwarded, processed, last_refused, state_reads,
                 state_writes>>

\* Advance, had the loop of line 241 stepped over every other date
AdvanceByTwo ==
  IF idx + 1 < Len(dates)
  THEN idx' = idx + 2 /\ pc' = "fetch"
  ELSE idx' = idx /\ pc' = "update"

\* Advance, had the loop of line 241 been left after its first date
AdvanceLeaveEarly ==
  idx' = idx /\ pc' = "update"

\* line 241: the loop moves to the next date, or leaves for line 278
Advance ==
  IF idx < Len(dates)
  THEN idx' = idx + 1 /\ pc' = "fetch"
  ELSE idx' = idx /\ pc' = "update"

(***************************************************************************)
(* _process_dates, lines 241-270: download and validate one date.          *)
(***************************************************************************)
Fetch ==
  /\ pc = "fetch"
  /\ \/ \E r \in Responses :
          LET target_date == dates[idx]
              b           == DownloadReport(r)
          IN  /\ IF b = None
                 THEN /\ skip_count' = skip_count + 1
                      /\ last_success_date' =
                           CandidateAfterNone(last_success_date, target_date)
                      /\ attempts' =
                           Record(Attempt(target_date, RespKind(r), "none"))
                      /\ last_refused' = FALSE
                      /\ Advance
                      /\ UNCHANGED <<success_count, error_count, bundle>>
                 ELSE IF ~ValidateStixBundle(b)
                 THEN /\ error_count' = error_count + 1
                      /\ last_success_date' =
                           CandidateAfterInvalid(last_success_date, target_date)
                      /\ attempts' =
                           Record(Attempt(target_date, RespKind(r), "invalid"))
                      /\ last_refused' = FALSE
                      /\ Advance
                      /\ UNCHANGED <<success_count, skip_count, bundle>>
                 ELSE /\ bundle' = b
                      /\ pc' = "send"
                      /\ UNCHANGED <<idx, counters, attempts, last_refused>>
              /\ UNCHANGED faulted
     \/ \* the download raised what lines 173-182 do not catch (an
        \* exception that is no RequestException): the fault reaches run
        /\ faulted' = TRUE
        /\ pc' = AfterFault
        /\ UNCHANGED <<idx, counters, attempts, last_refused, bundle>>
  /\ UNCHANGED <<today, state, config, passes, dates, work_id, last_processed,
                 sent_dates, wrote, summary, history, state_reads,
                 state_writes, prev>>

(***************************************************************************)
(* _process_dates, lines 272-276, and _send_to_opencti.                    *)
(***************************************************************************)
Send ==
  /\ pc = "send"
  /\ sunk' = sunk \cup {bundle}
  /\ \E ok \in BOOLEAN :
       LET target_date == dates[idx]
       IN  /\ success_count' = IF ok THEN success_count + 1 ELSE success_count
           /\ error_count' = IF ok THEN error_count ELSE error_count + 1
           /\ last_success_date' =
                CandidateAfterSend(ok, last_success_date, target_date)
           /\ sent_dates' = IF ok THEN sent_dates \cup {target_date} ELSE sent_dates
           /\ last_refused' = ~ok
           /\ attempts' =
                Record(Attempt(target_date, "json", IF ok THEN "sent" ELSE "sendfail"))
  /\ bundle' = None
  /\ Advance
  /\ UNCHANGED <<today, state, config, passes, dates, skip_count, work_id,
                 last_processed, wrote, faulted, summary, attempted, forwarded,
                 processed, state_reads, state_writes, prev>>

(***************************************************************************)
(* _process_dates, lines 278-288.                                          *)
(***************************************************************************)
UpdateState ==
  /\ pc = "update"
  /\ IF ShouldPersist(last_success_date, success_count)
     THEN /\ state_writes' = state_writes + 1
          /\ \/ \* set_state returned
                /\ state' = NewState(last_success_date, today)
                /\ wrote' = TRUE
                /\ pc' = "finalize"
                /\ UNCHANGED faulted
             \/ \* set_state raised
                /\ faulted' = TRUE
                /\ pc' = AfterFault
                /\ UNCHANGED <<state, wrote>>
     ELSE /\ pc' = "finalize"
          /\ UNCHANGED <<state, wrote, faulted, state_writes>>
  /\ UNCHANGED <<today, config, passes, dates, idx, counters, bundle, work_id,
                 last_processed, attempts, sent_dates, summary, history,
                 last_refused, state_reads, prev>>

(***************************************************************************)
(* _process_dates, lines 290-297.                                          *)
(***************************************************************************)
FinalizeWork ==
  /\ pc = "finalize"
  /\ summary' = Summary(success_count, skip_count, error_count, Len(dates))
  /\ \/ \* to_processed returned
        /\ processed' = processed + 1
        /\ pc' = "sleep"
        /\ UNCHANGED faulted
     \/ \* to_processed raised
        /\ faulted' = TRUE
        /\ pc' = AfterFault
        /\ UNCHANGED processed
  /\ UNCHANGED <<today, state, config, passes, dates, idx, counters, bundle,
                 work_id, last_processed, attempts, sent_dates, wrote, sunk,
                 attempted, forwarded, audit>>

(***************************************************************************)
(* run, lines 310-322: the pass is over (returned or raised); sleep, then  *)
(* loop.  The locals of the pass are gone; the clock has moved on.         *)
(***************************************************************************)
Sleep ==
  /\ pc = "sleep"
  /\ \E t \in today..LastDay : today' = t
  /\ attempted' = Remember(attempted, attempted \cup {dates[i] : i \in 1..idx})
  /\ forwarded' = Remember(forwarded, forwarded \cup sent_dates)
  /\ dates' = <<>>
  /\ idx' = 0
  /\ success_count' = 0
  /\ skip_count' = 0
  /\ error_count' = 0
  /\ last_success_date' = NoDate
  /\ bundle' = None
  /\ work_id' = 0
  /\ last_processed' = NoDate
  /\ attempts' = <<>>
  /\ sent_dates' = {}
  /\ wrote' = FALSE
  /\ faulted' = FALSE
  /\ summary' = NoSummary
  /\ sunk' = {}
  /\ processed' = 0
  /\ prev' = Remember(PassRecord(NoDate, <<>>, {}, FALSE, faulted, FALSE),
                       PassRecord(today, SubSeq(dates, 1, idx), sent_dates,
                                  wrote, faulted, last_refused))
  /\ last_refused' = FALSE
  /\ state_reads' = 0
  /\ state_writes' = 0
  /\ pc' = "start"
  /\ UNCHANGED <<state, config, passes>>

\* one pass: _process_dates from its call to its return or its fault
Pass ==
  \/ StartPass
  \/ InitiateWork
  \/ Fetch
  \/ Send
  \/ UpdateState
  \/ FinalizeWork

Next ==
  \/ Pass
  \/ Sleep

\* the run loop
Spec == Init /\ [][Next]_vars

(***************************************************************************)
(* The run loop with no bound on the number of passes: run is one thread   *)
(* that is never blocked for ever, every collaborator call returns or      *)
(* raises and time.sleep returns, so a step that can be taken is taken.    *)
(***************************************************************************)
LiveNext ==
  \/ Next
  \/ StartPassAgain

\* the connector starts, and only the fault of a pass is remembered
LiveInit ==
  /\ today = FirstDay
  /\ state \in StoredStates(FirstDay)
  /\ observe = FALSE
  /\ track = FALSE
  /\ InitRest

LiveSpec == LiveInit /\ [][LiveNext]_vars /\ WF_vars(LiveNext)

(***************************************************************************)
(* One pass, observed: it starts on one of two days with any stored state, *)
(* and the record of its dates is kept.                                    *)
(***************************************************************************)
PassDays == {ToOrdinal(2024, 3, 10), ToOrdinal(2024, 3, 1)}

PassInit ==
  /\ today \in PassDays
  /\ state \in StoredStates(today)
               \cup {{<<"last_run", IsoFormat(today - 1)>>},
                     StateWith(ShortText, today - 1)}
  /\ observe = TRUE
  /\ track = TRUE
  /\ InitRest

PassSpec == PassInit /\ [][Pass]_vars

(***************************************************************************)
(* Vocabulary of the properties.                                           *)
(***************************************************************************)
\* the persisted watermark when it is well formed, NoDate otherwise
Watermark ==
  IF HasKey(state, "last_processed_date")
       /\ IsIsoText(Get(state, "last_processed_date"))
  THEN LET t == Get(state, "last_processed_date") IN ToOrdinal(t[1], t[2], t[3])
  ELSE NoDate

\* the pass has read the state store (get_state returned)
StateRead == pc # "start" /\ ~(faulted /\ dates = <<>>)

\* the pass is over: _process_dates returned or raised
PassOver == pc = "sleep" /\ passes >= 1

\* positions of the record whose sink call was accepted
SentAt == {i \in 1..Len(attempts) : attempts[i].result = "sent"}

\* positions of the record whose date the sink did not refuse
NotSendFailAt == {i \in 1..Len(attempts) : attempts[i].result # "sendfail"}

Max(S) == CHOOSE x \in S : \A y \in S : y <= x

(***************************************************************************)
(* C1.  Over any sequence of passes the persisted last_processed_date      *)
(* never decreases: every state write stores a well-formed date that is    *)
(* later than or equal to the well-formed watermark read at the start of   *)
(* the pass (and to the one stored just before the write).                 *)
(***************************************************************************)
C1_WatermarkNeverDecreases ==
  [][ (state' # state \/ (wrote' /\ ~wrote)) =>
        /\ Watermark' # NoDate
        /\ Watermark' >= last_processed
        /\ Watermark' >= Watermark ]_vars

\* a second or later pass has read a well-formed watermark and written a
\* later one
C1_Witness ==
  /\ passes >= 2
  /\ wrote
  /\ last_processed # NoDate
  /\ Watermark > last_processed

(***************************************************************************)
(* C2.  A pass in which no date is forwarded successfully performs no      *)
(* state write: once the pass has reconciled, and as long as the sink has  *)
(* accepted nothing, set_state has not been called and the persisted       *)
(* watermark is the one the pass read.                                     *)
(***************************************************************************)
C2_NoSuccessNoWrite ==
  (StateRead /\ SentAt = {} /\ sent_dates = {}) =>
     /\ ~wrote
     /\ Watermark = last_processed

\* a pass over two dates, one not found and one refused by the sink, is
\* over and the stored watermark is still the well-formed one it read
C2_Witness ==
  /\ PassOver
  /\ Len(attempts) = 2
  /\ SentAt = {}
  /\ \E i \in 1..2 : attempts[i].result = "sendfail"
  /\ \E i \in 1..2 : attempts[i].kind = "notfound"
  /\ last_processed # NoDate
  /\ Watermark = last_processed

C5_OnlyValidForwarded ==
  /\ \A b \in sunk : b.json = "object" /\ b.type = "bundle" /\ b.objects = "list"
  /\ pc = "send" => (bundle.json = "object" /\ bundle.type = "bundle"
                       /\ bundle.objects = "list")
  /\ \A i \in 1..Len(attempts) :
        attempts[i].result = "invalid" => attempts[i].date \notin sent_dates

\* a pass met a document that fails validation and also called the sink
C5_Witness ==
  /\ PassOver
  /\ sunk # {}
  /\ \E i \in 1..Len(attempts) : attempts[i].result = "invalid"

\* positions of the record whose fetch returned 404
NotFoundAt == {i \in 1..Len(attempts) : attempts[i].kind = "notfound"}

\* positions of the record whose fetch failed: transport failure or
\* timeout, error status other than 404, body that is no JSON text
FetchFailedAt ==
  {i \in 1..Len(attempts) : attempts[i].kind \in {"transport", "status", "badjson"}}

\* _compute_date_range has returned and nothing else has happened yet:
\* the pass is about to initiate its work, or ended on an empty list
Reconciled ==
  \/ pc = "initiate"
  \/ pc = "sleep" /\ passes >= 1 /\ ~faulted /\ work_id = 0

C7_FetchFailuresAreErrors ==
  /\ error_count >= Cardinality(FetchFailedAt)
  /\ skip_count + Cardinality(FetchFailedAt) <= Len(attempts)

(***************************************************************************)
(* C8.  As claimed: no prior state, lookback_days = 2, today = 2024-03-10, *)
(* 03-08 not found, 03-09 a valid bundle accepted by the sink, 03-10 a     *)
(* transport failure: the pass attempts 03-08, 03-09, 03-10, reports       *)
(* 1 imported, 1 skipped, 1 errors out of 3 dates and persists 2024-03-10. *)
(***************************************************************************)
C8_Scenario ==
  /\ PassOver
  /\ ~faulted
  /\ today = ToOrdinal(2024, 3, 10)
  /\ lookback_days = 2
  /\ last_processed = NoDate
  /\ attempts = << Attempt(ToOrdinal(2024, 3, 8), "notfound", "none"),
                   Attempt(ToOrdinal(2024, 3, 9), "json", "sent"),
                   Attempt(ToOrdinal(2024, 3, 10), "transport", "none") >>

C8_ScenarioSummary ==
  C8_Scenario =>
     /\ dates = <<ToOrdinal(2024, 3, 8), ToOrdinal(2024, 3, 9), ToOrdinal(2024, 3, 10)>>
     /\ summary = Summary(1, 1, 1, 3)
     /\ Get(state, "last_processed_date") = <<2024, 3, 10>>

(***************************************************************************)
(* C9.  With no persisted watermark and lookback L >= 0 the reconciler     *)
(* returns exactly the L+1 consecutive dates today-L .. today, ascending;  *)
(* for L = 0 the single date today.                                        *)
(***************************************************************************)
C9_BackfillRange ==
  (Reconciled /\ ~HasKey(state, "last_processed_date")) =>
     /\ Len(dates) = lookback_days + 1
     /\ \A i \in 1..Len(dates) : dates[i] = today - lookback_days + (i - 1)
     /\ lookback_days = 0 => dates = <<today>>

\* the backfill of 2024-03-01 with lookback 2 crosses the leap day
C9_Witness ==
  /\ pc = "initiate"
  /\ state = EmptyState
  /\ lookback_days = 2
  /\ Len(dates) = 3
  /\ StrfDate(dates[1]) = <<2024, 2, 28>>
  /\ StrfDate(dates[2]) = <<2024, 2, 29>>
  /\ StrfDate(dates[3]) = <<2024, 3, 1>>

(***************************************************************************)
(* C10.  With a well-formed persisted watermark D <= today the reconciler  *)
(* returns exactly the dates D+1 .. today, ascending; when D = today the   *)
(* list is empty and the pass fetches nothing, forwards nothing and writes *)
(* no state.                                                               *)
(***************************************************************************)
C10_ResumeRange ==
  (Reconciled /\ Watermark # NoDate /\ Watermark <= today) =>
     /\ Len(dates) = today - Watermark
     /\ \A i \in 1..Len(dates) : dates[i] = Watermark + i
     /\ Watermark = today =>
          /\ pc = "sleep"
          /\ dates = <<>>
          /\ idx = 0
          /\ attempts = <<>>
          /\ sunk = {}
          /\ sent_dates = {}
          /\ ~wrote

\* a pass resumes two days after its watermark
C10_Witness ==
  /\ pc = "initiate"
  /\ Watermark = today - 2
  /\ dates = <<today - 1, today>>

\* a pass that found the watermark at today is over with nothing done
C10_UpToDateWitness ==
  /\ PassOver
  /\ ~faulted
  /\ Watermark = today
  /\ dates = <<>>

(***************************************************************************)
(* C11.  Idempotence of a pass, as stated: when two passes run in          *)
(* succession on the same UTC day and only the connector touches the state *)
(* store, the second pass has an empty pending list whatever the per-date  *)
(* outcomes of the first pass were.  The per-date outcomes are those of a  *)
(* first pass that no fault ended.                                         *)
(***************************************************************************)
C11_Original ==
  (Reconciled /\ prev.day = today /\ ~prev.faulted) => dates = <<>>

(***************************************************************************)
(* C11, amended.  The second of two passes on the same UTC day has an      *)
(* empty pending list when the first pass either had an empty pending list *)
(* itself, or wrote the state and the sink did not refuse the last date it *)
(* visited (the watermark it wrote is then the current day).               *)
(***************************************************************************)
C11_SecondPassEmpty ==
  (/\ Reconciled
   /\ prev.day = today
   /\ \/ prev.dates = <<>> /\ ~prev.faulted
      \/ prev.wrote /\ ~prev.refused)
  => dates = <<>>

\* a first pass of two dates that wrote the state, then an empty second pass
C11_Witness ==
  /\ Reconciled
  /\ prev.day = today
  /\ prev.wrote
  /\ ~prev.refused
  /\ Len(prev.dates) >= 2
  /\ dates = <<>>

(***************************************************************************)
(* C12.  When the state read holds a last_processed_date that does not     *)
(* parse as a date, the reconciler returns, without a fault, the list it   *)
(* returns when there is no watermark: today - lookback_days .. today.     *)
(***************************************************************************)
C12_MalformedBackfills ==
  (/\ Reconciled
   /\ HasKey(state, "last_processed_date")
   /\ ~IsIsoText(Get(state, "last_processed_date")))
  => /\ ~faulted
     /\ last_processed = NoDate
     /\ dates = ComputeDateRange(today, EmptyState, lookback_days)
     /\ dates = DatesFrom(today - lookback_days, today)

\* a stored text naming the 30th of February, backfilled over three days
C12_Witness ==
  /\ pc = "initiate"
  /\ HasKey(state, "last_processed_date")
  /\ Get(state, "last_processed_date") = BadDayText
  /\ lookback_days = 2
  /\ dates = <<today - 2, today - 1, today>>

\* a stored text that is too short, backfilled as well
C12_ShortWitness ==
  /\ pc = "initiate"
  /\ HasKey(state, "last_processed_date")
  /\ Get(state, "last_processed_date") = ShortText
  /\ Len(dates) = lookback_days + 1

(***************************************************************************)
(* C13.  A fault raised inside a pass (by the state read, the work         *)
(* initiation, a fetch, the state write or the finalization; the sink call *)
(* catches its own) never ends the run loop: run catches it, sleeps and    *)
(* starts another pass, so passes start infinitely often.                  *)
(***************************************************************************)
C13_PassesStartForever ==
  /\ []<><<StartPass \/ StartPassAgain>>_vars
  /\ [](faulted => <>(pc = "start"))

\* a pass that started after a pass that a fault ended
C13_Witness ==
  /\ pc = "initiate"
  /\ prev.faulted
  /\ passes >= 2

(***************************************************************************)
(* C14.  A fully-failed pass is retried, as stated: after a pass in which  *)
(* no date succeeded, every date that pass attempted is in the pending     *)
(* list of the next pass, with or without a watermark, the current day     *)
(* advanced or not.                                                        *)
(***************************************************************************)
C14_Original ==
  (Reconciled /\ prev.day # NoDate /\ prev.sent = {})
  => Range(prev.dates) \subseteq Range(dates)

(***************************************************************************)
(* C14, amended.  After a pass in which no date succeeded, every date that *)
(* pass attempted is in the pending list of the next pass when a           *)
(* well-formed watermark is stored or when the day has not advanced; with  *)
(* no watermark and a later day, the attempted dates that are retried are  *)
(* those not older than today - lookback_days.                             *)
(***************************************************************************)
C14_FailedPassRetried ==
  (Reconciled /\ prev.day # NoDate /\ prev.sent = {})
  => /\ (last_processed # NoDate \/ prev.day = today)
          => Range(prev.dates) \subseteq Range(dates)
     /\ \A d \in Range(prev.dates) :
          d \in Range(dates) <=> d >= today - lookback_days
                                  \/ last_processed # NoDate

\* two dates after a stored watermark failed, and are pending the day after
C14_Witness ==
  /\ pc = "initiate"
  /\ prev.day # NoDate
  /\ prev.day < today
  /\ prev.sent = {}
  /\ last_processed # NoDate
  /\ Len(prev.dates) = 2
  /\ Range(prev.dates) \subseteq Range(dates)

\* a first run failed, and the day after its oldest date is pending no more
C14_DroppedWitness ==
  /\ pc = "initiate"
  /\ prev.day # NoDate
  /\ prev.day < today
  /\ prev.sent = {}
  /\ last_processed = NoDate
  /\ prev.dates # <<>>
  /\ prev.dates[1] \notin Range(dates)

(***************************************************************************)
(* C15.  Within one pass the dates of the pending list are attempted once  *)
(* each in ascending order, the fetch, validation and forwarding of a date *)
(* are complete before the next date starts, and no outcome of an earlier  *)
(* date (not found, transport failure, invalid bundle, sink refusal) keeps *)
(* the later dates from being attempted: the record of the pass is a       *)
(* prefix of the pending list, one entry behind the date in hand, and the  *)
(* whole list once the loop is left.                                       *)
(***************************************************************************)
C15_EachDateOnceInOrder ==
  /\ \A i \in 1..(Len(dates) - 1) : dates[i] < dates[i + 1]
  /\ Len(attempts) <= Len(dates)
  /\ \A i \in 1..Len(attempts) : attempts[i].date = dates[i]
  /\ pc = "fetch" => Len(attempts) = idx - 1 /\ bundle = None
  /\ pc = "send" => Len(attempts) = idx - 1 /\ bundle # None
  /\ pc \in {"update", "finalize"} => Len(attempts) = Len(dates)
  /\ (PassOver /\ ~faulted) => Len(attempts) = Len(dates)

\* three dates: a transport failure, then a sink refusal, and the third
\* date is still attempted, and accepted
C15_Witness ==
  /\ PassOver
  /\ ~faulted
  /\ Len(attempts) = 3
  /\ attempts[1].kind = "transport"
  /\ attempts[2].result = "sendfail"
  /\ attempts[3].result = "sent"

\* an invalid document first, and the date after it is still attempted
C15_InvalidWitness ==
  /\ PassOver
  /\ Len(attempts) = 2
  /\ attempts[1].result = "invalid"
  /\ attempts[2].kind = "notfound"

(***************************************************************************)
(* C16.  Within one pass the state store is read exactly once, before any  *)
(* date is fetched, and written at most once, only after the last date of  *)
(* the pending list has been attempted: no write lies between two dates.   *)
(***************************************************************************)
C16_ReadOnceWriteAtEnd ==
  /\ state_reads = (IF pc = "start" THEN 0 ELSE 1)
  /\ state_reads = 0 => idx = 0 /\ attempts = <<>>
  /\ state_writes <= 1
  /\ wrote => state_writes = 1
  /\ pc \in {"initiate", "fetch", "send", "update"} => state_writes = 0
  /\ state_writes = 1 => /\ pc \in {"finalize", "sleep"}
                         /\ idx = Len(dates)
                         /\ Len(attempts) = Len(dates)

\* a pass of three dates that wrote the state, after the third
C16_Witness ==
  /\ PassOver
  /\ state_reads = 1
  /\ state_writes = 1
  /\ wrote
  /\ Len(attempts) = 3

(***************************************************************************)
(* C17.  Each attempted date increments exactly one of the three counters: *)
(* after k dates have been attempted imported + skipped + errored = k, and *)
(* in the summary reported at finalization imported + skipped + errored    *)
(* equals the total, which is the length of the pending list.              *)
(***************************************************************************)
C17_CountersPartition ==
  /\ success_count + skip_count + error_count = Len(attempts)
  /\ success_count = Cardinality(SentAt)
  /\ skip_count =
       Cardinality({i \in 1..Len(attempts) : attempts[i].result = "none"})
  /\ error_count =
       Cardinality({i \in 1..Len(attempts) :
                      attempts[i].result \in {"invalid", "sendfail"}})
  /\ summary # NoSummary =>
       /\ summary.imported + summary.skipped + summary.errors = summary.total
       /\ summary.total = Len(dates)
       /\ summary.total = Len(attempts)

\* a summary of three dates, one in each counter
C17_Witness ==
  /\ PassOver
  /\ summary = Summary(1, 1, 1, 3)
  /\ Len(dates) = 3

(***************************************************************************)
(* C18.  No date's bundle is accepted by the sink more than once over any  *)
(* sequence of passes: after a pass that forwards a date the persisted     *)
(* watermark is that date or a later one, so the date is in no later       *)
(* pending list.                                                           *)
(***************************************************************************)
C18_Original ==
  /\ sent_dates \cap forwarded = {}
  /\ PassOver => \A d \in sent_dates : Watermark >= d

(***************************************************************************)
(* What does hold of C18: a pass whose state write returned leaves a       *)
(* watermark that is at or after every date it forwarded, a pending list   *)
(* holds only dates after the watermark read, and so the pass that follows *)
(* has none of those dates in its pending list.  A pass that a fault ended *)
(* before its state write returned leaves the watermark as it was, and the *)
(* dates it forwarded are forwarded again.                                 *)
(***************************************************************************)
C18_ForwardedOnceWhenWritten ==
  /\ wrote => \A d \in sent_dates : Watermark >= d
  /\ last_processed # NoDate =>
       \A d \in Range(dates) \cup sent_dates : d > last_processed
  /\ prev.wrote => prev.sent \cap Range(dates) = {}

\* a date accepted by the sink in an earlier pass is accepted again
C18_ForwardedTwice ==
  sent_dates \cap forwarded # {}

\* the pass that follows one that forwarded and wrote is about to work on
\* later dates only
C18_NextPassWitness ==
  /\ pc = "initiate"
  /\ prev.wrote
  /\ prev.sent # {}
  /\ \A d \in prev.sent : d < dates[1]

(***************************************************************************)
(* C19.  A pass initiates a work identifier only when its pending list is  *)
(* not empty, and every work identifier that a pass initiates is marked    *)
(* processed exactly once before the next pass starts, after all forwards  *)
(* of that pass and after the state write; no initiated work is left       *)
(* unfinished, also when a step of the pass raises a fault.                *)
(***************************************************************************)
C19_WorkAlwaysFinished ==
  /\ work_id # 0 => dates # <<>>
  /\ processed <= 1
  /\ processed = 1 =>
       /\ pc = "sleep"
       /\ work_id # 0
       /\ Len(attempts) = Len(dates)
       /\ ShouldPersist(last_success_date, success_count) => wrote
  /\ (PassOver /\ work_id # 0) => processed = 1

(***************************************************************************)
(* What does hold of C19: the same, for the passes that no fault ended.    *)
(* A pass that a fault ended after it had initiated its work leaves the    *)
(* work unfinished.                                                        *)
(***************************************************************************)
C19_WorkFinishedUnlessFault ==
  /\ work_id # 0 => dates # <<>>
  /\ processed <= 1
  /\ processed = 1 =>
       /\ pc = "sleep"
       /\ work_id # 0
       /\ Len(attempts) = Len(dates)
       /\ ShouldPersist(last_success_date, success_count) => wrote
  /\ (PassOver /\ work_id # 0) => (processed = 1 <=> ~faulted)

\* a pass over, its work initiated and never marked processed
C19_UnfinishedWork ==
  /\ PassOver
  /\ work_id # 0
  /\ processed = 0
  /\ sent_dates # {}
  /\ ~wrote

=============================================================================
